---- MODULE Spec2Model ----
(***************************************************************************)
(* Model of tools/profiler/core/platform-win32.cpp: the Win32 sampler      *)
(* thread of the Gecko profiler.                                           *)
(*                                                                         *)
(* SamplerThread instances live in slots 1..MaxInst.  Each instance has    *)
(* its own sampler thread running Run(); pc[s] is that thread's position.  *)
(* The profiler owner (profiler_start / profiler_stop) constructs, stops   *)
(* and destroys instances; the global profiler state (gPS: generation,     *)
(* pause flag, FeatureMemory, registered threads) is guarded by gPSMutex.  *)
(* `log` records the calls made during the pass in flight, in order.       *)
(***************************************************************************)
EXTENDS Integers, Sequences, FiniteSets, TLC

\* ------------------------------------------------------------------ bounds
MaxInst == 2
\* Registered threads under Spec, and under SpecTimer.
MaxThreads == 2
MaxTimerThreads == 1
MaxOverlapThreads == 1
MaxFairThreads == 1

Inst == 1..MaxInst

\* Requested intervals (aInterval, a double), in half milliseconds:
\* 0 ms, 5 ms, 9.5 ms and 50 ms.
IntervalHalves == {0, 10, 19, 100}

\* The interval requested under Spec: 5 ms.
SampleIntervalHalves == {10}

\* ------------------------------------------------------------------ state
VARIABLES
  gen,          \* PS::ActivityGeneration
  paused,       \* gPS->IsPaused
  featMem,      \* gPS->FeatureMemory
  threads,      \* gPS->Threads: sequence of ThreadInfo records
  lockOwner,    \* holder of gPSMutex
  ownerPc,      \* position of the owner thread in profiler_start/_stop
  ownerArg,     \* the instance the owner is operating on (0: none)
  active,       \* the instance gPS currently owns (0: none)
  st,           \* st[s]: lifecycle of the SamplerThread object in slot s
  pc,           \* pc[s]: position of the sampler thread of slot s
  mGen,         \* mActivityGeneration
  mInterval,    \* mInterval
  idx,          \* Run()'s loop variable i (1-based)
  isFirst,      \* Run()'s isFirstProfiledThread
  sampleRss,    \* whether the TickSample in SampleContext has rssMemory set
  suspendCount, \* OS suspend count of each registered thread
  timer,        \* outstanding timeBeginPeriod requests, per period
  timerCalls,   \* timerCalls[s]: timer calls issued on behalf of slot s
  timerBefore,  \* timer state right before slot s was constructed
  sleepCalls,   \* sleepCalls[s]: ::Sleep was entered after Stop() returned
  log           \* calls of the pass in flight, in order

vars == <<gen, paused, featMem, threads, lockOwner, ownerPc, ownerArg, active,
          st, pc, mGen, mInterval, idx, isFirst, sampleRss, suspendCount,
          timer, timerCalls, timerBefore, sleepCalls, log>>

gPSVars == <<gen, paused, featMem, threads>>
ownerVars == <<ownerPc, ownerArg, active, st>>
timerVars == <<timer, timerCalls, timerBefore>>
fieldVars == <<mGen, mInterval>>
loopVars == <<idx, isFirst, sampleRss>>

\* ------------------------------------------------------------- helpers
Free == [kind |-> "free", id |-> 0]
OwnerThread == [kind |-> "owner", id |-> 0]
Sampler(s) == [kind |-> "sampler", id |-> s]

ThreadInfo == [hasProfile : BOOLEAN, pendingDelete : BOOLEAN, handle : BOOLEAN]

\* mInterval(std::max(1, int(floor(aInterval + 0.5)))), aInterval = h / 2
RoundInterval(h) ==
  LET r == (h + 1) \div 2
  IN  IF r < 1 THEN 1 ELSE r

\* The periods the constructor can pass to ::timeBeginPeriod.
Periods == {RoundInterval(h) : h \in IntervalHalves}

NoTimer == [p \in Periods |-> 0]

Event(k, t, v) == <<k, t, v>>

\* ::timeBeginPeriod(m) / ::timeEndPeriod(m)
TimeBeginPeriod(tm, m) == [tm EXCEPT ![m] = @ + 1]
TimeEndPeriod(tm, m) == [tm EXCEPT ![m] = @ - 1]

Init ==
  /\ gen = 0
  /\ paused \in BOOLEAN
  /\ featMem \in BOOLEAN
  /\ threads = <<>>
  /\ lockOwner = Free
  /\ ownerPc = "idle"
  /\ ownerArg = 0
  /\ active = 0
  /\ st = [s \in Inst |-> "none"]
  /\ pc = [s \in Inst |-> "none"]
  /\ mGen = [s \in Inst |-> 0]
  /\ mInterval = [s \in Inst |-> 0]
  /\ idx = [s \in Inst |-> 0]
  /\ isFirst = [s \in Inst |-> FALSE]
  /\ sampleRss = [s \in Inst |-> FALSE]
  /\ suspendCount = [t \in 1..MaxThreads |-> 0]
  /\ timer = NoTimer
  /\ timerCalls = [s \in Inst |-> <<>>]
  /\ timerBefore = [s \in Inst |-> NoTimer]
  /\ sleepCalls = [s \in Inst |-> FALSE]
  /\ log = <<>>

\* ------------------------------------------------------ the owner thread
\* profiler_start takes gPSMutex before it constructs the SamplerThread
\* (the constructor's PS::LockRef parameter is the proof of that).
OwnerStartLock ==
  /\ ownerPc = "idle"
  /\ active = 0
  /\ lockOwner = Free
  /\ \E s \in Inst : st[s] = "none"
  /\ lockOwner' = OwnerThread
  /\ ownerPc' = "start"
  /\ UNCHANGED <<gPSVars, ownerArg, active, st, pc, fieldVars, loopVars,
                 suspendCount, timerVars, sleepCalls, log>>

\* SamplerThread::SamplerThread(aLock, aActivityGeneration, aInterval)
ConstructBody(s, h) ==
  LET m == RoundInterval(h)
  IN  /\ mGen' = [mGen EXCEPT ![s] = gen]
      /\ mInterval' = [mInterval EXCEPT ![s] = m]
      /\ timerBefore' = [timerBefore EXCEPT ![s] = timer]
      /\ IF m < 10
           THEN /\ timer' = TimeBeginPeriod(timer, m)
                /\ timerCalls' = [timerCalls EXCEPT ![s] = Append(@, <<"begin", m>>)]
           ELSE UNCHANGED <<timer, timerCalls>>
      /\ pc' = [pc EXCEPT ![s] = "lock"]

Construct(s, h) ==
  /\ ownerPc = "start"
  /\ lockOwner = OwnerThread
  /\ st[s] = "none"
  /\ \A r \in Inst : r < s => st[r] # "none"
  /\ ConstructBody(s, h)
  /\ st' = [st EXCEPT ![s] = "running"]
  /\ active' = s
  /\ ownerArg' = s
  /\ ownerPc' = "started"
  /\ UNCHANGED <<gPSVars, lockOwner, loopVars, suspendCount, sleepCalls, log>>

\* profiler_stop takes gPSMutex, changes the activity generation, calls
\* Stop(aLock), releases the mutex and only then deletes the SamplerThread.
OwnerStopLock ==
  /\ ownerPc = "idle"
  /\ active # 0
  /\ lockOwner = Free
  /\ lockOwner' = OwnerThread
  /\ ownerPc' = "stop"
  /\ ownerArg' = active
  /\ UNCHANGED <<gPSVars, active, st, pc, fieldVars, loopVars,
                 suspendCount, timerVars, sleepCalls, log>>

BumpGeneration ==
  /\ ownerPc = "stop"
  /\ lockOwner = OwnerThread
  /\ gen' = gen + 1
  /\ ownerPc' = "bumped"
  /\ UNCHANGED <<paused, featMem, threads, lockOwner, ownerArg, active, st, pc,
                 fieldVars, loopVars, suspendCount, timerVars, sleepCalls, log>>

\* Mutant: Stop tests the interval against a different threshold.
StopBodyOtherThreshold(s) ==
  IF mInterval[s] <= 10
    THEN /\ timer' = TimeEndPeriod(timer, mInterval[s])
         /\ timerCalls' = [timerCalls EXCEPT ![s] = Append(@, <<"end", mInterval[s]>>)]
    ELSE UNCHANGED <<timer, timerCalls>>

\* Mutant: Stop does not revert the timer resolution.
StopBodyNoRevert(s) == UNCHANGED <<timer, timerCalls>>

\* SamplerThread::Stop(aLock)
StopBody(s) ==
  IF mInterval[s] < 10
    THEN /\ timer' = TimeEndPeriod(timer, mInterval[s])
         /\ timerCalls' = [timerCalls EXCEPT ![s] = Append(@, <<"end", mInterval[s]>>)]
    ELSE UNCHANGED <<timer, timerCalls>>

Stop(s) ==
  /\ ownerPc = "bumped"
  /\ lockOwner = OwnerThread
  /\ ownerArg = s
  /\ st[s] = "running"
  /\ StopBody(s)
  /\ st' = [st EXCEPT ![s] = "stopping"]
  /\ active' = 0
  /\ ownerPc' = "stopped"
  /\ UNCHANGED <<gPSVars, lockOwner, ownerArg, pc, fieldVars, loopVars,
                 suspendCount, timerBefore, sleepCalls, log>>

\* profiler_start releases gPSMutex after the construction; profiler_stop
\* releases it after Stop() and then deletes the SamplerThread it stopped.
OwnerUnlock ==
  /\ ownerPc \in {"started", "stopped"}
  /\ lockOwner = OwnerThread
  /\ lockOwner' = Free
  /\ IF ownerPc = "stopped"
       THEN /\ ownerPc' = "delete"
            /\ st' = [st EXCEPT ![ownerArg] = "stopped"]
            /\ UNCHANGED ownerArg
       ELSE /\ ownerPc' = "idle"
            /\ ownerArg' = 0
            /\ UNCHANGED st
  /\ UNCHANGED <<gPSVars, active, pc, fieldVars, loopVars,
                 suspendCount, timerVars, sleepCalls, log>>

\* SamplerThread::~SamplerThread(): WaitForSingleObject(mThread, INFINITE)
\* is entered ...
DestroyBegin(s) ==
  /\ ownerPc = "delete"
  /\ ownerArg = s
  /\ st[s] = "stopped"
  /\ st' = [st EXCEPT ![s] = "joining"]
  /\ UNCHANGED <<gPSVars, lockOwner, ownerPc, ownerArg, active, pc, fieldVars,
                 loopVars, suspendCount, timerVars, sleepCalls, log>>

\* Mutant: the destructor does not wait for the sampler thread.
JoinSkipped(s) == TRUE

\* ... and returns once the sampler thread has left ThreadEntry.
JoinReturns(s) == pc[s] = "exited"

\* The destructor returns and the object's storage is reclaimed: its fields
\* no longer exist.
DestroyReturn(s) ==
  /\ ownerPc = "delete"
  /\ ownerArg = s
  /\ st[s] = "joining"
  /\ JoinReturns(s)
  /\ st' = [st EXCEPT ![s] = "destroyed"]
  /\ ownerPc' = "idle"
  /\ ownerArg' = 0
  /\ mGen' = [mGen EXCEPT ![s] = 0]
  /\ mInterval' = [mInterval EXCEPT ![s] = 0]
  /\ timerCalls' = [timerCalls EXCEPT ![s] = <<>>]
  /\ timerBefore' = [timerBefore EXCEPT ![s] = NoTimer]
  /\ sleepCalls' = [sleepCalls EXCEPT ![s] = FALSE]
  /\ UNCHANGED <<gPSVars, lockOwner, active, pc, loopVars, suspendCount,
                 timer, log>>

\* The deletion of a stopped SamplerThread is handed to another thread, and
\* the owner is free to start the profiler again while the stopped
\* instance's sampler thread is still alive.  One deferred deletion is
\* pending at a time.
DeferDelete ==
  /\ ownerPc = "delete"
  /\ st[ownerArg] = "stopped"
  /\ \A r \in Inst \ {ownerArg} : st[r] \notin {"stopped", "joining"}
  /\ ownerPc' = "idle"
  /\ ownerArg' = 0
  /\ UNCHANGED <<gPSVars, lockOwner, active, st, pc, fieldVars, loopVars,
                 suspendCount, timerVars, sleepCalls, log>>

\* ~SamplerThread() of an instance whose deletion was deferred: the join is
\* entered ...
DeferredDestroyBegin(s) ==
  /\ ownerArg # s
  /\ st[s] = "stopped"
  /\ st' = [st EXCEPT ![s] = "joining"]
  /\ UNCHANGED <<gPSVars, lockOwner, ownerPc, ownerArg, active, pc, fieldVars,
                 loopVars, suspendCount, timerVars, sleepCalls, log>>

\* ... and returns once the sampler thread has left ThreadEntry.
DeferredDestroyReturn(s) ==
  /\ ownerArg # s
  /\ st[s] = "joining"
  /\ JoinReturns(s)
  /\ st' = [st EXCEPT ![s] = "destroyed"]
  /\ mGen' = [mGen EXCEPT ![s] = 0]
  /\ mInterval' = [mInterval EXCEPT ![s] = 0]
  /\ timerCalls' = [timerCalls EXCEPT ![s] = <<>>]
  /\ timerBefore' = [timerBefore EXCEPT ![s] = NoTimer]
  /\ sleepCalls' = [sleepCalls EXCEPT ![s] = FALSE]
  /\ UNCHANGED <<gPSVars, lockOwner, ownerPc, ownerArg, active, pc, loopVars,
                 suspendCount, timer, log>>

\* ------------------------------------- other users of the profiler state
\* Registration, deregistration, flag changes and pause toggling each take
\* gPSMutex for their whole duration, so each is one step taken while the
\* mutex is free.
EnvLocked == lockOwner = Free

SetPaused ==
  /\ EnvLocked
  /\ paused' = ~paused
  /\ UNCHANGED <<gen, featMem, threads, lockOwner, ownerVars, pc, fieldVars,
                 loopVars, suspendCount, timerVars, sleepCalls, log>>

SetFeatureMemory ==
  /\ EnvLocked
  /\ featMem' = ~featMem
  /\ UNCHANGED <<gen, paused, threads, lockOwner, ownerVars, pc, fieldVars,
                 loopVars, suspendCount, timerVars, sleepCalls, log>>

\* A thread registers: PlatformData's constructor calls OpenThread, which
\* may fail and leave profiled_thread_ null (handle = FALSE).
RegisterThread(info, cap) ==
  /\ EnvLocked
  /\ Len(threads) < cap
  /\ threads' = Append(threads, info)
  /\ UNCHANGED <<gen, paused, featMem, lockOwner, ownerVars, pc, fieldVars,
                 loopVars, suspendCount, timerVars, sleepCalls, log>>

UnregisterThread ==
  /\ EnvLocked
  /\ Len(threads) > 0
  /\ threads' = SubSeq(threads, 1, Len(threads) - 1)
  /\ UNCHANGED <<gen, paused, featMem, lockOwner, ownerVars, pc, fieldVars,
                 loopVars, suspendCount, timerVars, sleepCalls, log>>

SetThreadFlags(t, hp, pd) ==
  /\ EnvLocked
  /\ t \in 1..Len(threads)
  /\ threads' = [threads EXCEPT ![t].hasProfile = hp, ![t].pendingDelete = pd]
  /\ threads' # threads
  /\ UNCHANGED <<gen, paused, featMem, lockOwner, ownerVars, pc, fieldVars,
                 loopVars, suspendCount, timerVars, sleepCalls, log>>

\* --------------------------------------------- the sampler thread: Run()
\* PS::AutoLock lock(gPSMutex)
\* Mutant: the mutex excludes the owner thread but not other sampler threads.
LockSharedBySamplers(s) == lockOwner.kind # "owner"

\* PS::AutoLock lock(gPSMutex) blocks until no thread holds the mutex.
LockAvailable(s) == lockOwner = Free

AcquireLock(s) ==
  /\ pc[s] = "lock"
  /\ LockAvailable(s)
  /\ lockOwner' = Sampler(s)
  /\ pc' = [pc EXCEPT ![s] = "check"]
  /\ UNCHANGED <<gPSVars, ownerVars, fieldVars, loopVars, suspendCount,
                 timerVars, sleepCalls, log>>

\* Mutant: the check compares with < and so never sees a later generation.
GenerationBehind(s) == gen < mGen[s]

\* Mutant: the generation is compared only while profiling is not paused.
GenerationCheckedUnlessPaused(s) == gen # mGen[s] /\ ~paused

\* PS::ActivityGeneration(lock) != mActivityGeneration
GenerationChanged(s) == gen # mGen[s]

\* Mutant: the pause flag is never seen.
NeverPaused == FALSE

\* gPS->IsPaused(lock)
IsPaused == paused

\* The generation check, deleteExpiredStoredMarkers() and the pause check.
CheckGeneration(s) ==
  /\ pc[s] = "check"
  /\ lockOwner = Sampler(s)
  /\ IF GenerationChanged(s)
       THEN /\ lockOwner' = Free
            /\ pc' = [pc EXCEPT ![s] = "exited"]
            /\ UNCHANGED <<loopVars, log>>
       ELSE /\ log' = <<Event("expire", 0, TRUE)>>
            /\ IF ~IsPaused
                 THEN /\ isFirst' = [isFirst EXCEPT ![s] = TRUE]
                      /\ idx' = [idx EXCEPT ![s] = 1]
                      /\ pc' = [pc EXCEPT ![s] = "loop"]
                 ELSE /\ pc' = [pc EXCEPT ![s] = "unlock"]
                      /\ UNCHANGED <<isFirst, idx>>
            /\ UNCHANGED <<lockOwner, sampleRss>>
  /\ UNCHANGED <<gPSVars, ownerVars, fieldVars, suspendCount, timerVars, sleepCalls>>

\* Mutant: the pending-delete test is missing.
NotInterestedNoPendingTest(info) == ~info.hasProfile

\* !info->HasProfile() || info->IsPendingDelete()
NotInterested(info) == ~info.hasProfile \/ info.pendingDelete

Eligible(info) == info.hasProfile /\ ~info.pendingDelete

\* Mutant: the `continue` after a successful duplication is missing.
NeverContinues(canDup, dupRet) == FALSE

\* Mutant: `continue` is taken whenever the predicate is true.
ContinuesOnPredicate(canDup, dupRet) == canDup

\* Mutant: the result of DuplicateLastSample is tested the wrong way round.
ContinuesOnFailedDuplicate(canDup, dupRet) == canDup /\ ~dupRet

\* CanDuplicateLastSampleDueToSleep() && DuplicateLastSample(...): the
\* second call is made only when the first returns true; `continue` is
\* taken when both do.
DuplicateTaken(canDup, dupRet) == canDup /\ dupRet

DuplicateLog(t, canDup, dupRet) ==
  IF canDup THEN <<Event("dup", t, dupRet)>> ELSE <<>>

\* Mutant: the loop variable is not advanced after SampleContext.
RevisitsThread(s) ==
  /\ isFirst' = [isFirst EXCEPT ![s] = FALSE]
  /\ UNCHANGED idx
  /\ sampleRss' = [sampleRss EXCEPT ![s] = FALSE]
  /\ pc' = [pc EXCEPT ![s] = "loop"]

\* SampleContext returns to Run(): isFirstProfiledThread = false; i++.
ReturnToLoop(s) ==
  /\ isFirst' = [isFirst EXCEPT ![s] = FALSE]
  /\ idx' = [idx EXCEPT ![s] = @ + 1]
  /\ sampleRss' = [sampleRss EXCEPT ![s] = FALSE]
  /\ pc' = [pc EXCEPT ![s] = "loop"]

\* Mutant: the first-thread test is missing.
CollectsMemoryForEveryThread(s) == featMem

\* Mutant: the FeatureMemory test is missing.
CollectsMemoryIgnoringFeature(s) == isFirst[s]

\* isFirstProfiledThread && gPS->FeatureMemory(aLock)
CollectsMemory(s) == isFirst[s] /\ featMem

\* Mutant: the null-handle test is missing.
HandleNeverNull(info) == FALSE

\* profiled_thread == nullptr
HandleIsNull(info) == ~info.handle

\* SampleContext up to the SuspendThread call; `before` is the pass's log
\* when SampleContext is entered.
SampleEntry(s, before) ==
  LET t == idx[s]
  IN  IF HandleIsNull(threads[t])
        THEN /\ ReturnToLoop(s)
             /\ log' = before
        ELSE /\ log' = before \o <<Event("now", t, TRUE)>>
                              \o (IF CollectsMemory(s)
                                    THEN <<Event("rss", t, TRUE)>> ELSE <<>>)
             /\ sampleRss' = [sampleRss EXCEPT ![s] = CollectsMemory(s)]
             /\ pc' = [pc EXCEPT ![s] = "suspend"]
             /\ UNCHANGED <<idx, isFirst>>

\* One iteration of the for loop, up to the next OS call on the thread.
VisitThread(s) ==
  /\ pc[s] = "loop"
  /\ idx[s] <= Len(threads)
  /\ LET t == idx[s]
         info == threads[t]
     IN  IF NotInterested(info)
           THEN /\ idx' = [idx EXCEPT ![s] = t + 1]
                /\ UNCHANGED <<pc, log, isFirst, sampleRss>>
           ELSE \E canDup \in BOOLEAN, dupRet \in BOOLEAN :
                  IF DuplicateTaken(canDup, dupRet)
                    THEN /\ log' = log \o DuplicateLog(t, canDup, dupRet)
                         /\ idx' = [idx EXCEPT ![s] = t + 1]
                         /\ UNCHANGED <<pc, isFirst, sampleRss>>
                    ELSE SampleEntry(s, log \o DuplicateLog(t, canDup, dupRet)
                                            \o <<Event("resp", t, TRUE)>>)
  /\ UNCHANGED <<gPSVars, lockOwner, ownerVars, fieldVars,
                 suspendCount, timerVars, sleepCalls>>

\* i == threads.size(): the loop and the lock's scope end.
LoopDone(s) ==
  /\ pc[s] = "loop"
  /\ idx[s] > Len(threads)
  /\ pc' = [pc EXCEPT ![s] = "unlock"]
  /\ UNCHANGED <<gPSVars, lockOwner, ownerVars, fieldVars, loopVars,
                 suspendCount, timerVars, sleepCalls, log>>

\* Mutant: a failed suspend ends the thread iteration of the pass.
AbandonsPass(s) ==
  /\ isFirst' = [isFirst EXCEPT ![s] = FALSE]
  /\ idx' = [idx EXCEPT ![s] = Len(threads) + 1]
  /\ sampleRss' = [sampleRss EXCEPT ![s] = FALSE]
  /\ pc' = [pc EXCEPT ![s] = "loop"]

\* if (SuspendThread(...) == kSuspendFailed) return;
AfterSuspendFailure(s) == ReturnToLoop(s)

\* SuspendThread(profiled_thread) == kSuspendFailed
SuspendStep(s) ==
  /\ pc[s] = "suspend"
  /\ LET t == idx[s]
     IN  \E ok \in BOOLEAN :
           /\ log' = Append(log, Event("suspend", t, ok))
           /\ IF ok
                THEN /\ suspendCount' = [suspendCount EXCEPT ![t] = @ + 1]
                     /\ pc' = [pc EXCEPT ![s] = "getctx"]
                     /\ UNCHANGED loopVars
                ELSE /\ AfterSuspendFailure(s)
                     /\ UNCHANGED suspendCount
  /\ UNCHANGED <<gPSVars, lockOwner, ownerVars, fieldVars, timerVars, sleepCalls>>

\* Mutant: the context-read failure branch returns without ResumeThread.
ReturnsWithoutResume == FALSE

\* Whether SampleContext resumes the thread when GetThreadContext fails.
ResumesAfterContextFailure == TRUE

\* Mutant: the sample is recorded whether or not the context was read.
ContextLogAlwaysTicks(t, ok, rss) ==
  <<Event("getctx", t, ok), Event("tick", t, rss)>>

\* The calls from GetThreadContext up to, not including, ResumeThread.
ContextLog(t, ok, rss) ==
  IF ok THEN <<Event("getctx", t, TRUE), Event("tick", t, rss)>>
        ELSE <<Event("getctx", t, FALSE)>>

\* GetThreadContext(profiled_thread, &context) and, when it succeeds,
\* Tick(aLock, gPS->Buffer(aLock), &sample)
GetContextStep(s) ==
  /\ pc[s] = "getctx"
  /\ LET t == idx[s]
     IN  \E ok \in BOOLEAN :
           IF ok
             THEN /\ log' = log \o ContextLog(t, ok, sampleRss[s])
                  /\ pc' = [pc EXCEPT ![s] = "resume"]
                  /\ UNCHANGED loopVars
             ELSE /\ log' = log \o ContextLog(t, ok, sampleRss[s])
                  /\ IF ResumesAfterContextFailure
                       THEN /\ pc' = [pc EXCEPT ![s] = "resume"]
                            /\ UNCHANGED loopVars
                       ELSE ReturnToLoop(s)
  /\ UNCHANGED <<gPSVars, lockOwner, ownerVars, fieldVars, suspendCount,
                 timerVars, sleepCalls>>

\* ResumeThread(profiled_thread), then return
ResumeStep(s) ==
  /\ pc[s] = "resume"
  /\ log' = Append(log, Event("resume", idx[s], TRUE))
  /\ suspendCount' = [suspendCount EXCEPT ![idx[s]] = @ - 1]
  /\ ReturnToLoop(s)
  /\ UNCHANGED <<gPSVars, lockOwner, ownerVars, fieldVars, timerVars, sleepCalls>>

\* Mutant: the lock's scope extends over the Sleep call.
LockKeptOverSleep(s) == Sampler(s)

\* The holder of gPSMutex once the scope of |lock| has ended, before Sleep.
LockAfterPass(s) == Free

\* The scope of |lock| ends: gPSMutex is unlocked.
Unlock(s) ==
  /\ pc[s] = "unlock"
  /\ lockOwner = Sampler(s)
  /\ lockOwner' = LockAfterPass(s)
  /\ pc' = [pc EXCEPT ![s] = "to_sleep"]
  /\ log' = <<>>
  /\ idx' = [idx EXCEPT ![s] = 0]
  /\ isFirst' = [isFirst EXCEPT ![s] = FALSE]
  /\ UNCHANGED <<gPSVars, ownerVars, fieldVars, sampleRss, suspendCount,
                 timerVars, sleepCalls>>

Stopped(s) == st[s] \in {"stopping", "stopped", "joining", "destroyed"}

\* ::Sleep(mInterval) is entered ...
BeginSleep(s) ==
  /\ pc[s] = "to_sleep"
  /\ pc' = [pc EXCEPT ![s] = "sleeping"]
  /\ sleepCalls' = [sleepCalls EXCEPT ![s] = @ \/ Stopped(s)]
  /\ UNCHANGED <<gPSVars, lockOwner, ownerVars, fieldVars, loopVars,
                 suspendCount, timerVars, log>>

\* ... and returns.
Wake(s) ==
  /\ pc[s] = "sleeping"
  /\ pc' = [pc EXCEPT ![s] = "lock"]
  /\ UNCHANGED <<gPSVars, lockOwner, ownerVars, fieldVars, loopVars,
                 suspendCount, timerVars, sleepCalls, log>>

SamplerStep(s) ==
  \/ AcquireLock(s)
  \/ CheckGeneration(s)
  \/ VisitThread(s)
  \/ LoopDone(s)
  \/ SuspendStep(s)
  \/ GetContextStep(s)
  \/ ResumeStep(s)
  \/ Unlock(s)
  \/ BeginSleep(s)
  \/ Wake(s)

\* Every step but construction and registration, whose inputs the two
\* specifications below draw from different sets.
Step ==
  \/ OwnerStartLock
  \/ OwnerStopLock
  \/ BumpGeneration
  \/ \E s \in Inst : Stop(s)
  \/ OwnerUnlock
  \/ \E s \in Inst : DestroyBegin(s)
  \/ \E s \in Inst : DestroyReturn(s)
  \/ SetPaused
  \/ SetFeatureMemory
  \/ UnregisterThread
  \/ \E t \in 1..MaxThreads, hp \in BOOLEAN, pd \in BOOLEAN : SetThreadFlags(t, hp, pd)
  \/ \E s \in Inst : AcquireLock(s)
  \/ \E s \in Inst : CheckGeneration(s)
  \/ \E s \in Inst : VisitThread(s)
  \/ \E s \in Inst : LoopDone(s)
  \/ \E s \in Inst : SuspendStep(s)
  \/ \E s \in Inst : GetContextStep(s)
  \/ \E s \in Inst : ResumeStep(s)
  \/ \E s \in Inst : Unlock(s)
  \/ \E s \in Inst : BeginSleep(s)
  \/ \E s \in Inst : Wake(s)

\* Sampling: one requested interval, up to MaxThreads registered threads.
Next ==
  \/ Step
  \/ \E s \in Inst, h \in SampleIntervalHalves : Construct(s, h)
  \/ \E info \in ThreadInfo : RegisterThread(info, MaxThreads)

Spec == Init /\ [][Next]_vars

\* Timer resolution: every requested interval, up to MaxTimerThreads
\* registered threads.
NextTimer ==
  \/ Step
  \/ \E s \in Inst, h \in IntervalHalves : Construct(s, h)
  \/ \E info \in ThreadInfo : RegisterThread(info, MaxTimerThreads)

SpecTimer == Init /\ [][NextTimer]_vars

\* Overlapping instances: the deletion of a stopped SamplerThread may be
\* deferred, so that the next one is created while the stopped one's
\* sampler thread still sleeps or waits for the mutex.
NextOverlap ==
  \/ Step
  \/ \E s \in Inst, h \in SampleIntervalHalves : Construct(s, h)
  \/ \E info \in ThreadInfo : RegisterThread(info, MaxOverlapThreads)
  \/ DeferDelete
  \/ \E s \in Inst : DeferredDestroyBegin(s)
  \/ \E s \in Inst : DeferredDestroyReturn(s)

SpecOverlap == Init /\ [][NextOverlap]_vars

\* Fair scheduling: a sampler thread that can take a step eventually does
\* (the mutex is granted when free, ::Sleep returns), and so does the thread
\* that unlocks gPSMutex or runs the destructor.
NextFair ==
  \/ Step
  \/ \E s \in Inst, h \in SampleIntervalHalves : Construct(s, h)
  \/ \E info \in ThreadInfo : RegisterThread(info, MaxFairThreads)

SpecFair ==
  /\ Init /\ [][NextFair]_vars
  /\ \A s \in Inst : WF_vars(SamplerStep(s))
  /\ WF_vars(OwnerUnlock)
  /\ \A s \in Inst : WF_vars(DestroyBegin(s))
  /\ \A s \in Inst : WF_vars(DestroyReturn(s))

\* ------------------------------------------------------------ the claims
Has(k, t, v) == \E i \in DOMAIN log : log[i] = <<k, t, v>>

Count(k, t, v) == Cardinality({i \in DOMAIN log : log[i] = <<k, t, v>>})

Calls(k, t) == Count(k, t, TRUE) + Count(k, t, FALSE)

\* No sampler thread is between a SuspendThread and SampleContext's return.
OutsideSampleContext == \A s \in Inst : pc[s] \notin {"getctx", "resume"}

\* C1: on every exit path of SampleContext (null handle, suspend failure,
\* context-read failure, success) the thread has been resumed exactly once
\* for each SuspendThread that succeeded and never for one that failed, so
\* no thread is left suspended once SampleContext has returned.
C1_SuspendResumePaired ==
  \A t \in 1..MaxThreads :
    /\ Count("resume", t, TRUE) <= Count("suspend", t, TRUE)
    /\ OutsideSampleContext =>
         /\ Count("resume", t, TRUE) = Count("suspend", t, TRUE)
         /\ suspendCount[t] = 0

\* C1's case: a pass in which the first thread's context read failed after
\* a successful suspend and the second thread's suspend failed has ended.
C1_Witness ==
  \E s \in Inst :
    /\ pc[s] = "unlock"
    /\ Has("getctx", 1, FALSE)
    /\ Has("resume", 1, TRUE)
    /\ Has("suspend", 2, FALSE)

\* C2: once the activity generation differs from the one an instance
\* captured, that instance is in no pass and enters none, logs no call, and
\* the first generation check it makes ends Run(), for good.
C2_NoPassAfterGenerationChange ==
  [][\A s \in Inst :
       /\ (pc[s] # "none" /\ gen # mGen[s]) =>
            /\ pc[s] \notin {"loop", "suspend", "getctx", "resume", "unlock"}
            /\ pc'[s] \notin {"loop", "suspend", "getctx", "resume", "unlock"}
            /\ (pc[s] = "check" => pc'[s] \in {"check", "exited"})
            /\ (pc'[s] # pc[s] => log' = log)
       /\ (pc[s] = "exited" => pc'[s] = "exited")]_vars

\* C2's case: a stopped instance's thread has left Run() after the
\* generation changed, while its destructor waits.
C2_Witness ==
  \E s \in Inst : pc[s] = "exited" /\ st[s] = "joining" /\ gen # mGen[s]

\* C3: after the destructor has returned the instance's sampler thread has
\* left Run(), holds no lock and takes no further step.
C3_NoActivityAfterDestruction ==
  [][\A s \in Inst :
       st[s] = "destroyed" =>
         /\ pc[s] = "exited"
         /\ lockOwner # Sampler(s)
         /\ ~SamplerStep(s)]_vars

\* C3's case: an instance has been destroyed and a later one is sampling.
C3_Witness ==
  \E s, r \in Inst : st[s] = "destroyed" /\ st[r] = "running" /\ pc[r] = "resume"

\* C4: the sampler thread owns gPSMutex from the generation check to the end
\* of the thread iteration, and not while it is about to sleep or sleeping.
C4_LockHeldInPassNotInSleep ==
  \A s \in Inst :
    /\ pc[s] \in {"check", "loop", "suspend", "getctx", "resume", "unlock"}
         => lockOwner = Sampler(s)
    /\ pc[s] \in {"lock", "to_sleep", "sleeping", "exited", "none"}
         => lockOwner # Sampler(s)

\* C4's case: while the sampler thread sleeps, the owner holds the mutex.
C4_Witness ==
  \E s \in Inst : pc[s] = "sleeping" /\ lockOwner = OwnerThread

Samples(t) == Count("dup", t, TRUE) + Calls("tick", t)

EligibleThreads == {t \in 1..Len(threads) : threads[t].hasProfile /\ ~threads[t].pendingDelete}

RECURSIVE SumOver(_, _)
SumOver(f, S) ==
  IF S = {} THEN 0
  ELSE LET x == CHOOSE y \in S : TRUE
       IN  f[x] + SumOver(f, S \ {x})

\* C5: in a pass each eligible thread gets at most one sample, duplicated or
\* fresh but not both, so the pass yields at most M samples for M eligible
\* threads; an ineligible thread gets no sample, suspend or duplicate call.
C5_SamplesPerPass ==
  /\ \A t \in 1..Len(threads) :
       IF t \in EligibleThreads
         THEN Samples(t) <= 1
         ELSE \A i \in DOMAIN log : log[i][2] # t
  /\ SumOver([t \in 1..MaxThreads |-> Samples(t)], 1..MaxThreads)
       <= Cardinality(EligibleThreads)

\* C5's case: a pass over a pending-delete thread and an eligible thread
\* that was sampled has ended.
C5_Witness ==
  \E s \in Inst :
    /\ pc[s] = "unlock"
    /\ Len(threads) = 2
    /\ threads[1].hasProfile /\ threads[1].pendingDelete
    /\ Calls("tick", 2) = 1

\* The first thread of the pass passed to SampleContext (0: none yet).
FirstSampled ==
  LET R == {i \in DOMAIN log : log[i][1] = "resp"}
  IN  IF R = {} THEN 0
      ELSE log[CHOOSE i \in R : \A j \in R : i <= j][2]

\* Fresh samples of the pass that carry the memory metric.
SamplesWithMemory ==
  Cardinality({i \in DOMAIN log : log[i][1] = "tick" /\ log[i][3]})

\* C6 as stated: at the end of a pass over a thread set with an eligible
\* thread, exactly one sample carries the memory metric when FeatureMemory
\* is enabled, and none when it is disabled.
C6_ExactlyOneMemorySample ==
  \A s \in Inst :
    (pc[s] = "unlock" /\ ~paused /\ EligibleThreads # {}) =>
      SamplesWithMemory = (IF featMem THEN 1 ELSE 0)

\* C6, amended: a fresh sample carries the memory metric exactly when
\* FeatureMemory is enabled and its thread is the first one of the pass that
\* was passed to SampleContext; so at most one sample of a pass carries it,
\* and none does when the flag is disabled.
C6_AtMostOneMemorySample ==
  /\ \A i \in DOMAIN log :
       log[i][1] = "tick" => (log[i][3] <=> (featMem /\ log[i][2] = FirstSampled))
  /\ SamplesWithMemory <= 1
  /\ ~featMem => SamplesWithMemory = 0

\* C6's case: with FeatureMemory enabled a pass has sampled two threads, the
\* first with the memory metric and the second without.
C6_Witness ==
  \E s \in Inst :
    /\ pc[s] = "unlock"
    /\ featMem
    /\ Has("tick", 1, TRUE)
    /\ Has("tick", 2, FALSE)

\* C7: at the end of a pass every eligible thread with a handle that was not
\* duplicated has had exactly one SuspendThread, one GetThreadContext if that
\* succeeded and one Tick if that succeeded too, whatever failed for the
\* other threads; no call is made twice on a thread in a pass.
C7_FailuresAreIsolated ==
  /\ \A t \in 1..MaxThreads : Calls("suspend", t) <= 1 /\ Calls("getctx", t) <= 1
  /\ \A s \in Inst :
       (pc[s] = "unlock" /\ ~paused) =>
         \A t \in EligibleThreads :
           (threads[t].handle /\ ~Has("dup", t, TRUE)) =>
             /\ Calls("suspend", t) = 1
             /\ Has("suspend", t, TRUE) => Calls("getctx", t) = 1
             /\ Has("getctx", t, TRUE) => Calls("tick", t) = 1

\* C7's case: the first thread's suspend failed and the second thread was
\* sampled in the same pass.
C7_Witness ==
  \E s \in Inst :
    /\ pc[s] = "unlock"
    /\ Has("suspend", 1, FALSE)
    /\ Calls("tick", 2) = 1

\* The timer calls a constructed (and a stopped) instance has issued.
BeginCalls(m) == IF m < 10 THEN << <<"begin", m>> >> ELSE <<>>

PairedCalls(m) == IF m < 10 THEN << <<"begin", m>>, <<"end", m>> >> ELSE <<>>

\* C8: an instance with rounded interval m has issued timeBeginPeriod(m)
\* once at construction if m < 10, and after Stop also timeEndPeriod(m)
\* once, leaving the timer state as before the construction; with m >= 10
\* it has issued neither call.
C8_TimerRequestReverted ==
  \A s \in Inst :
    /\ st[s] = "running" => timerCalls[s] = BeginCalls(mInterval[s])
    /\ st[s] \in {"stopping", "stopped", "joining"} =>
         /\ timerCalls[s] = PairedCalls(mInterval[s])
         /\ timer = timerBefore[s]

\* C8's case: an instance constructed with 5 ms has been stopped.
C8_Witness ==
  \E s \in Inst :
    /\ st[s] = "stopped"
    /\ timerCalls[s] = << <<"begin", 5>>, <<"end", 5>> >>

\* timeBeginPeriod calls not yet matched by a timeEndPeriod.
Outstanding == SumOver(timer, Periods)

C10_DuplicatedThreadNotSampled ==
  \A t \in 1..MaxThreads :
    Has("dup", t, TRUE) =>
      /\ Calls("dup", t) = 1
      /\ \A i \in DOMAIN log : log[i][2] = t => log[i][1] = "dup"

\* C10's case: the first thread was duplicated and the second one sampled.
C10_Witness ==
  \E s \in Inst :
    /\ pc[s] = "unlock"
    /\ Has("dup", 1, TRUE)
    /\ Calls("tick", 2) = 1

\* C11: a registered thread with an empty handle has, in every pass, no
\* timestamp capture, memory-metric collection, SuspendThread,
\* GetThreadContext, ResumeThread or Tick, and its suspend count stays 0.
C11_EmptyHandleNeverSampled ==
  \A t \in 1..Len(threads) :
    ~threads[t].handle =>
      /\ \A i \in DOMAIN log : log[i][2] = t => log[i][1] \in {"dup", "resp"}
      /\ suspendCount[t] = 0

\* C11's case: a pass has passed an eligible thread with an empty handle to
\* SampleContext and then sampled the next thread.
C11_Witness ==
  \E s \in Inst :
    /\ pc[s] = "unlock"
    /\ Len(threads) = 2
    /\ ~threads[1].handle
    /\ Has("resp", 1, TRUE)
    /\ Calls("tick", 2) = 1

\* C12: every Tick for a thread directly follows a successful
\* GetThreadContext that directly follows a successful SuspendThread on it,
\* with the thread still suspended and not yet resumed; a failed
\* GetThreadContext is followed by ResumeThread and no Tick.
C12_TickOnlyWhileSuspended ==
  \A i \in DOMAIN log :
    LET t == log[i][2]
    IN  /\ log[i][1] = "tick" =>
             /\ i >= 3
             /\ log[i - 1] = <<"getctx", t, TRUE>>
             /\ log[i - 2] = <<"suspend", t, TRUE>>
             /\ \A j \in 1..i : log[j] # <<"resume", t, TRUE>>
             /\ i = Len(log) => suspendCount[t] = 1
        /\ log[i] = <<"getctx", t, FALSE>> =>
             /\ Calls("tick", t) = 0
             /\ i < Len(log) => log[i + 1] = <<"resume", t, TRUE>>
             /\ i = Len(log) => \E s \in Inst : pc[s] = "resume" /\ idx[s] = t

\* C12's case: a Tick has just been made for the second thread, which is
\* suspended, after the first thread's context read failed.
C12_Witness ==
  \E s \in Inst :
    /\ pc[s] = "resume"
    /\ Has("getctx", 1, FALSE)
    /\ Calls("tick", 2) = 1
    /\ suspendCount[2] = 1

\* C13: when DuplicateLastSample returned false for a thread, the pass goes
\* on to full sampling of it: UpdateThreadResponsiveness follows at once and
\* then SampleContext, which captures the timestamp when the thread has a
\* handle.
C13_FailedDuplicateFallsThrough ==
  \A i \in DOMAIN log :
    LET t == log[i][2]
    IN  log[i] = <<"dup", t, FALSE>> =>
          /\ i < Len(log)
          /\ log[i + 1] = <<"resp", t, TRUE>>
          /\ threads[t].handle =>
               /\ i + 1 < Len(log)
               /\ log[i + 2] = <<"now", t, TRUE>>

\* C13's case: a thread whose duplication failed was sampled in that pass.
C13_Witness ==
  \E s \in Inst :
    /\ pc[s] = "unlock"
    /\ Has("dup", 1, FALSE)
    /\ Calls("tick", 1) = 1

\* C14 as stated: at the end of a pass a thread whose DuplicateLastSample
\* call returned false has had no SuspendThread and no Tick.
C14_FailedDuplicateSkipsSampling ==
  \A s \in Inst :
    pc[s] = "unlock" =>
      \A t \in 1..MaxThreads :
        Has("dup", t, FALSE) => Calls("suspend", t) = 0 /\ Calls("tick", t) = 0

\* C14, amended: at the end of a pass a thread with a handle whose
\* DuplicateLastSample call returned false has had its SuspendThread, and
\* its Tick if suspend and context read succeeded; an eligible thread with a
\* handle has had no SuspendThread only if its duplication succeeded.
C14_FailedDuplicateIsSampled ==
  \A s \in Inst :
    (pc[s] = "unlock" /\ ~paused) =>
      \A t \in EligibleThreads :
        threads[t].handle =>
          /\ Has("dup", t, FALSE) =>
               /\ Calls("suspend", t) = 1
               /\ Has("getctx", t, TRUE) => Calls("tick", t) = 1
          /\ Calls("suspend", t) = 0 => Has("dup", t, TRUE)

\* C14's case: after a failed duplication the thread's suspend was issued
\* and failed, and the next thread was skipped by a successful duplication.
C14_Witness ==
  \E s \in Inst :
    /\ pc[s] = "unlock"
    /\ Has("dup", 1, FALSE)
    /\ Has("suspend", 1, FALSE)
    /\ Has("dup", 2, TRUE)

\* C16: the calls of a pass are made in the order of the registered-thread
\* set: no call on a thread precedes a call on a thread of lower index, and
\* each thread is visited at most once.
C16_ThreadsHandledInOrder ==
  /\ \A i, j \in DOMAIN log : i < j => log[i][2] <= log[j][2]
  /\ \A t \in 1..MaxThreads :
       /\ Calls("dup", t) <= 1
       /\ Calls("resp", t) <= 1
       /\ ~(Has("dup", t, TRUE) /\ Has("resp", t, TRUE))
  /\ \A s \in Inst :
       pc[s] \in {"loop", "suspend", "getctx", "resume"} =>
         \A i \in DOMAIN log : log[i][2] <= idx[s]

\* C16's case: the first thread was sampled and resumed, then the second
\* thread's last sample was duplicated.
C16_Witness ==
  \E s \in Inst :
    /\ pc[s] = "unlock"
    /\ Has("resume", 1, TRUE)
    /\ Has("dup", 2, TRUE)

\* The first thread of the pass that reached SampleContext with a handle
\* (0: none yet).
FirstWithHandle ==
  LET R == {i \in DOMAIN log : log[i][1] = "now"}
  IN  IF R = {} THEN 0
      ELSE log[CHOOSE i \in R : \A j \in R : i <= j][2]

\* Successful suspends not yet resumed among the first n calls of the pass.
SuspendedAfter(n) ==
  Cardinality({j \in 1..n : log[j][1] = "suspend" /\ log[j][3]})
    - Cardinality({j \in 1..n : log[j][1] = "resume"})

\* C19: ResidentFast is called at most once in a pass, only with
\* FeatureMemory enabled and only for the first thread that reached
\* SampleContext with a handle; it directly follows the timestamp capture,
\* both precede the thread's SuspendThread, and both are made while no
\* thread is suspended.
C19_MemoryMetricBeforeSuspend ==
  /\ Cardinality({i \in DOMAIN log : log[i][1] = "rss"}) <= 1
  /\ \A i \in DOMAIN log :
       LET t == log[i][2]
       IN  /\ log[i][1] = "rss" =>
                /\ featMem
                /\ t = FirstWithHandle
                /\ i > 1 /\ log[i - 1] = <<"now", t, TRUE>>
           /\ log[i][1] \in {"now", "rss"} =>
                /\ \A j \in 1..i : log[j][1] = "suspend" => log[j][2] # t
                /\ SuspendedAfter(i) = 0
                /\ i = Len(log) => \A u \in 1..MaxThreads : suspendCount[u] = 0

\* C19's case: the memory metric was collected for the first thread although
\* its suspend then failed, and the second thread was sampled without it.
C19_Witness ==
  \E s \in Inst :
    /\ pc[s] = "unlock"
    /\ Has("rss", 1, TRUE)
    /\ Has("suspend", 1, FALSE)
    /\ Has("tick", 2, FALSE)

\* C15: a pass that starts while profiling is paused, the generation still
\* matching, does deleteExpiredStoredMarkers and nothing else: it goes
\* straight to the end of the lock scope with no call on any thread, then
\* releases the lock, sleeps and comes back to take the lock again; it never
\* leaves Run().  A pass that starts with the pause flag clear goes on to
\* the first registered thread.
C15_PausedPassOnlyMaintains ==
  /\ [](\A s \in Inst :
          (pc[s] = "unlock" /\ paused) => log = <<Event("expire", 0, TRUE)>>)
  /\ [][\A s \in Inst :
          /\ (pc[s] = "check" /\ gen = mGen[s] /\ pc'[s] # "check") =>
               /\ log' = <<Event("expire", 0, TRUE)>>
               /\ suspendCount' = suspendCount
               /\ lockOwner' = Sampler(s)
               /\ IF paused THEN pc'[s] = "unlock"
                            ELSE pc'[s] = "loop" /\ idx'[s] = 1
          /\ (pc[s] = "unlock" /\ pc'[s] # "unlock") =>
               pc'[s] = "to_sleep" /\ lockOwner' = Free
          /\ (pc[s] = "to_sleep" /\ pc'[s] # "to_sleep") => pc'[s] = "sleeping"
          /\ (pc[s] = "sleeping" /\ pc'[s] # "sleeping") => pc'[s] = "lock"]_vars

\* C15's case: a paused pass has reached the end of its lock scope although
\* two threads with handles and profiles are registered.
C15_Witness ==
  \E s \in Inst :
    /\ pc[s] = "unlock"
    /\ paused
    /\ log = <<Event("expire", 0, TRUE)>>
    /\ Len(threads) = 2
    /\ EligibleThreads = {1, 2}
    /\ threads[1].handle /\ threads[2].handle

\* C18: once Stop has been called on a SamplerThread (generation changed,
\* timeEndPeriod issued), its sampler thread is in no pass and begins no
\* ::Sleep call.
C18_NoSleepAfterStop ==
  \A s \in Inst :
    /\ Stopped(s) => pc[s] \notin {"loop", "suspend", "getctx", "resume", "unlock"}
    /\ ~sleepCalls[s]

\* C17: at most one target thread is suspended by the sampler, and a thread
\* is suspended only while a sampler thread holds gPSMutex inside
\* SampleContext for that thread; also when the sampler thread of a stopped
\* SamplerThread is still alive beside the one of a newer SamplerThread.
C17_OneSuspendedUnderLock ==
  /\ SumOver(suspendCount, 1..MaxThreads) <= 1
  /\ \A t \in 1..MaxThreads :
       suspendCount[t] > 0 =>
         \E s \in Inst :
           /\ lockOwner = Sampler(s)
           /\ pc[s] \in {"getctx", "resume"}
           /\ idx[s] = t
           /\ \A r \in Inst \ {s} :
                pc[r] \in {"none", "lock", "to_sleep", "sleeping", "exited"}

\* C17's case: the sampler thread of a new SamplerThread has a target
\* thread suspended while the sampler thread of the stopped one is
\* still alive, sleeping or waiting for the mutex.
C17_Witness ==
  \E s, r \in Inst :
    /\ st[r] = "stopped"
    /\ pc[r] \in {"sleeping", "lock"}
    /\ st[s] = "running"
    /\ mGen[s] > mGen[r]
    /\ lockOwner = Sampler(s)
    /\ pc[s] = "resume"
    /\ suspendCount[1] = 1

\* C20: shutdown terminates.  The thread that deletes a stopped
\* SamplerThread does not hold gPSMutex, so the destructor never waits for a
\* sampler thread that waits for a mutex held by the deleting thread; under
\* fair scheduling the sampler thread of a stopped SamplerThread leaves
\* Run() and the destructor's join returns.
C20_ShutdownTerminates ==
  /\ [](\A s \in Inst :
          st[s] \in {"stopped", "joining"} => lockOwner # OwnerThread)
  /\ \A s \in Inst : (st[s] = "stopped") ~> (pc[s] = "exited")
  /\ \A s \in Inst : (st[s] = "stopped") ~> (st[s] = "destroyed")

\* C20's case: the destructor waits in its join while the sampler thread of
\* the stopped instance is still asleep.
C20_Witness ==
  \E s \in Inst :
    /\ st[s] = "joining"
    /\ pc[s] = "sleeping"
    /\ gen # mGen[s]

====
